---- MODULE Spec2Model ----
(***************************************************************************)
(* Model of gogo (src/main.go): a scaffolding generator that creates a     *)
(* project root, 14 subdirectories, 6 files and runs `git init`.           *)
(*                                                                         *)
(* A string that denotes a path is modelled by its split on "/": the       *)
(* string "a/b" is <<"a","b">>, "" is <<"">>, "/x" is <<"","x">>, "a/" is  *)
(* <<"a","">>.  String concatenation s + "/" + t is then s \o t, while     *)
(* filepath.Join additionally runs filepath.Clean.                         *)
(*                                                                         *)
(* The filesystem is a function from canonical absolute paths (sequences   *)
(* of names from the filesystem root <<>>) to entries.                     *)
(***************************************************************************)
EXTENDS Integers, Sequences, FiniteSets, TLC

VARIABLES
    fs,           \* the filesystem: canonical path -> entry
    args,         \* os.Args of the running process
    pc,           \* position of the process in main
    idx,          \* loop index (range dirs) / index of the createFile call
    projectName,  \* main's local projectName
    exit,         \* <<>> while running, <<status>> once the process exited
    stdout,       \* lines printed to standard output by this run
    stderr,       \* diagnostic written by log.Fatal / the runtime
    gitInvoked,   \* whether this run reached cmd.Run() of git init
    fs0,          \* the filesystem when this run was started
    log,          \* steps of main completed successfully by this run
    made,         \* <<path, entry>> pairs produced by completed steps
    injected,     \* whether the environment made a syscall of this run fail
    runs          \* number of invocations so far

vars == <<fs, args, pc, idx, projectName, exit, stdout, stderr, gitInvoked,
          fs0, log, made, injected, runs>>

\* Number of invocations of the tool explored.
MaxRuns == 2

----------------------------------------------------------------------------
\* Entries of the filesystem.

Dir == [kind |-> "dir", tmpl |-> "", paths |-> <<>>]

File(content) == [kind |-> "file", tmpl |-> content.tmpl, paths |-> content.paths]

\* What a file holds after os.Create succeeded and WriteString failed:
\* some strict prefix of the content.
Truncated == [tmpl |-> "truncated", paths |-> <<>>]

\* The working directory of the process and the tree it starts in: a
\* directory dup/ with a file of its own already exists.
Cwd == <<"home">>

InitialTree ==
    (<<>> :> Dir) @@ (<<"home">> :> Dir) @@ (<<"home", "dup">> :> Dir)
    @@ (<<"home", "dup", "notes.txt">> :> File([tmpl |-> "notes", paths |-> <<>>]))

\* Project names given on the command line: "myapi", "dup", "../x",
\* "../Makefile", "." and the empty string.
ProjectNames ==
    { <<"myapi">>, <<"dup">>, <<"..", "x">>, <<"..", "Makefile">>, <<".">>, <<"">> }

Argvs == { <<<<"gogo">>>> } \cup { <<<<"gogo">>, n>> : n \in ProjectNames }

NoName == <<>>

----------------------------------------------------------------------------
\* path/filepath

RECURSIVE CleanSegs(_, _, _)
CleanSegs(segs, out, rooted) ==
    IF segs = <<>> THEN out
    ELSE LET c == Head(segs)
             rest == Tail(segs)
         IN  IF c \in {"", "."} THEN CleanSegs(rest, out, rooted)
             ELSE IF c = ".."
                  THEN IF out /= <<>> /\ out[Len(out)] /= ".."
                       THEN CleanSegs(rest, SubSeq(out, 1, Len(out) - 1), rooted)
                       ELSE IF rooted THEN CleanSegs(rest, out, rooted)
                       ELSE CleanSegs(rest, Append(out, ".."), rooted)
             ELSE CleanSegs(rest, Append(out, c), rooted)

IsAbs(p) == Len(p) > 1 /\ p[1] = ""

\* filepath.Clean
Clean(p) ==
    LET out == CleanSegs(p, <<>>, IsAbs(p))
    IN  IF IsAbs(p) THEN <<"">> \o (IF out = <<>> THEN <<"">> ELSE out)
        ELSE IF out = <<>> THEN <<".">> ELSE out

RECURSIVE Concat(_)
Concat(elems) ==
    IF elems = <<>> THEN <<>> ELSE Head(elems) \o Concat(Tail(elems))

\* filepath.Join: leading empty elements are dropped, the rest is joined
\* with "/" and cleaned; all empty gives "".
RECURSIVE Join(_)
Join(elems) ==
    IF elems = <<>> THEN <<"">>
    ELSE IF Head(elems) = <<"">> THEN Join(Tail(elems))
    ELSE Clean(Concat(elems))

----------------------------------------------------------------------------
\* Path resolution by the operating system (no symbolic links).

NotFound == [ok |-> FALSE, path |-> <<>>]

Parent(p) == IF p = <<>> THEN <<>> ELSE SubSeq(p, 1, Len(p) - 1)

RECURSIVE Walk(_, _, _)
Walk(f, cur, comps) ==
    IF comps = <<>> THEN [ok |-> TRUE, path |-> cur]
    ELSE IF cur \notin DOMAIN f \/ f[cur].kind /= "dir" THEN NotFound
    ELSE LET c == Head(comps)
         IN  IF c \in {"", "."} THEN Walk(f, cur, Tail(comps))
             ELSE IF c = ".." THEN Walk(f, Parent(cur), Tail(comps))
             ELSE IF Append(cur, c) \in DOMAIN f
                  THEN Walk(f, Append(cur, c), Tail(comps))
                  ELSE NotFound

StartDir(p) == IF IsAbs(p) THEN <<>> ELSE Cwd

Comps(p) == IF IsAbs(p) THEN Tail(p) ELSE p

\* stat(2): the canonical path of an existing entry.
Lookup(f, p) ==
    IF p = <<"">> THEN NotFound ELSE Walk(f, StartDir(p), Comps(p))

RECURSIVE StripSlashes(_)
StripSlashes(comps) ==
    IF comps /= <<>> /\ comps[Len(comps)] = ""
    THEN StripSlashes(SubSeq(comps, 1, Len(comps) - 1))
    ELSE comps

\* The place a new entry named p would take: its parent must resolve to a
\* directory and its last component must be a name.
Slot(f, p) ==
    LET comps == StripSlashes(Comps(p))
    IN  IF p = <<"">> \/ comps = <<>> \/ comps[Len(comps)] \in {".", ".."}
        THEN NotFound
        ELSE LET par == Walk(f, StartDir(p), SubSeq(comps, 1, Len(comps) - 1))
             IN  IF par.ok /\ par.path \in DOMAIN f /\ f[par.path].kind = "dir"
                 THEN [ok |-> TRUE, path |-> Append(par.path, comps[Len(comps)])]
                 ELSE NotFound

\* A variant of os.Mkdir that accepts an existing directory.
MkdirExistOk(f, p) ==
    LET s == Slot(f, p)
    IN  IF ~s.ok THEN [ok |-> FALSE, fs |-> f]
        ELSE IF s.path \in DOMAIN f
             THEN [ok |-> f[s.path].kind = "dir", fs |-> f]
             ELSE [ok |-> TRUE, fs |-> f @@ (s.path :> Dir)]

\* os.Mkdir: fails when the path exists or its parent does not.
Mkdir(f, p) ==
    LET s == Slot(f, p)
    IN  IF ~s.ok \/ s.path \in DOMAIN f
        THEN [ok |-> FALSE, fs |-> f]
        ELSE [ok |-> TRUE, fs |-> f @@ (s.path :> Dir)]

\* os.MkdirAll on a cleaned path: every prefix that is missing is created
\* in turn; failAt names the prefix whose creation the environment refuses
\* (0: none).
RECURSIVE MkdirAllFrom(_, _, _, _)
MkdirAllFrom(f, p, k, failAt) ==
    IF k > Len(p) THEN [ok |-> TRUE, fs |-> f, injected |-> FALSE]
    ELSE LET pre == SubSeq(p, 1, k)
             st == Lookup(f, pre)
         IN  IF st.ok
             THEN IF f[st.path].kind = "dir"
                  THEN MkdirAllFrom(f, p, k + 1, failAt)
                  ELSE [ok |-> FALSE, fs |-> f, injected |-> FALSE]
             ELSE IF k = failAt
                  THEN [ok |-> FALSE, fs |-> f, injected |-> TRUE]
                  ELSE LET m == Mkdir(f, pre)
                       IN  IF m.ok THEN MkdirAllFrom(m.fs, p, k + 1, failAt)
                           ELSE [ok |-> FALSE, fs |-> f, injected |-> FALSE]

MkdirAll(f, p, failAt) ==
    MkdirAllFrom(f, p, IF IsAbs(p) THEN 2 ELSE 1, failAt)

----------------------------------------------------------------------------
\* Template functions.  A content is the template it was rendered from and
\* the paths the rendering put into it.

\* A variant of mainGoContent with the module prefix of the sample
\* project written into the template.
mainGoContentFixedName(name) ==
    [tmpl |-> "main.go",
     paths |-> << <<"fmt">>, <<"log">>,
                  <<"myapi", "pkg", "config">>, <<"myapi", "pkg", "logger">> >>]

\* The import block of the generated cmd/<name>/main.go.
mainGoContent(name) ==
    [tmpl |-> "main.go",
     paths |-> << <<"fmt">>, <<"log">>,
                  name \o <<"pkg", "config">>, name \o <<"pkg", "logger">> >>]

envFileContent == [tmpl |-> ".env", paths |-> <<>>]

gitignoreContent == [tmpl |-> ".gitignore", paths |-> <<>>]

\* The file named by the run target of the generated Makefile.
makefileContent(name) ==
    [tmpl |-> "Makefile", paths |-> << <<"cmd">> \o name \o <<"main.go">> >>]

loggerGoContent == [tmpl |-> "logger.go", paths |-> <<>>]

configGoContent == [tmpl |-> "config.go", paths |-> <<>>]

----------------------------------------------------------------------------
\* main's manifests.

\* Variants of dirs: one without the last entry, one with the logger
\* directory misnamed.
dirsNoDocs(name) ==
    << Join(<< <<"cmd">>, name >>),
       <<"internal", "handlers">>,
       <<"internal", "services">>,
       <<"internal", "repository">>,
       <<"internal", "models", "api">>,
       <<"internal", "models", "db">>,
       <<"internal", "middlewares">>,
       <<"internal", "utils">>,
       <<"pkg", "logger">>,
       <<"pkg", "config">>,
       <<"tests", "unit">>,
       <<"tests", "integration">>,
       <<"migrations">> >>

dirsLoggerTypo(name) ==
    << Join(<< <<"cmd">>, name >>),
       <<"internal", "handlers">>,
       <<"internal", "services">>,
       <<"internal", "repository">>,
       <<"internal", "models", "api">>,
       <<"internal", "models", "db">>,
       <<"internal", "middlewares">>,
       <<"internal", "utils">>,
       <<"pkg", "log">>,
       <<"pkg", "config">>,
       <<"tests", "unit">>,
       <<"tests", "integration">>,
       <<"migrations">>,
       <<"docs">> >>

dirs(name) ==
    << Join(<< <<"cmd">>, name >>),
       <<"internal", "handlers">>,
       <<"internal", "services">>,
       <<"internal", "repository">>,
       <<"internal", "models", "api">>,
       <<"internal", "models", "db">>,
       <<"internal", "middlewares">>,
       <<"internal", "utils">>,
       <<"pkg", "logger">>,
       <<"pkg", "config">>,
       <<"tests", "unit">>,
       <<"tests", "integration">>,
       <<"migrations">>,
       <<"docs">> >>

\* The six createFile calls of main, in order.
files(name) ==
    << [path |-> Join(<< name, Join(<< <<"cmd">>, name, <<"main.go">> >>) >>),
        content |-> mainGoContent(name)],
       [path |-> Join(<< name, <<".env">> >>), content |-> envFileContent],
       [path |-> Join(<< name, <<".gitignore">> >>), content |-> gitignoreContent],
       [path |-> Join(<< name, <<"Makefile">> >>), content |-> makefileContent(name)],
       [path |-> Join(<< name, Join(<< <<"pkg">>, <<"logger">>, <<"logger.go">> >>) >>),
        content |-> loggerGoContent],
       [path |-> Join(<< name, Join(<< <<"pkg">>, <<"config">>, <<"config.go">> >>) >>),
        content |-> configGoContent] >>

----------------------------------------------------------------------------
\* Helpers of the process.

\* A variant of the argument check that is off by one.
ArgsMissingOffByOne(a) == Len(a) < 1

ArgsMissing(a) == Len(a) < 2

\* A variant of log.Fatal that reports success to the caller.
logFatalStatusZero(msg) == [status |-> 0, stderr |-> msg]

\* log.Fatal / log.Fatalf: the message goes to standard error and the
\* process exits with status 1; deferred calls do not run.
logFatal(msg) == [status |-> 1, stderr |-> msg]

\* A variant of main that initialises the repository before it writes
\* the files.
AfterGitFirst(p, i, name) ==
    IF p = "mkroot" THEN <<"dirs", 1>>
    ELSE IF p = "dirs"
         THEN IF i < Len(dirs(name)) THEN <<"dirs", i + 1>> ELSE <<"git", 0>>
    ELSE IF p = "git" THEN <<"files", 1>>
    ELSE IF p = "files"
         THEN IF i < Len(files(name)) THEN <<"files", i + 1>> ELSE <<"print", 0>>
    ELSE <<"exited", 0>>

\* The statement main runs after step (p, i) completed.
After(p, i, name) ==
    IF p = "mkroot" THEN <<"dirs", 1>>
    ELSE IF p = "dirs"
         THEN IF i < Len(dirs(name)) THEN <<"dirs", i + 1>> ELSE <<"files", 1>>
    ELSE IF p = "files"
         THEN IF i < Len(files(name)) THEN <<"files", i + 1>> ELSE <<"git", 0>>
    ELSE IF p = "git" THEN <<"print", 0>>
    ELSE <<"exited", 0>>

IsPrefix(a, b) == Len(a) <= Len(b) /\ SubSeq(b, 1, Len(a)) = a

\* os.RemoveAll of the canonical path d.
RemoveAll(f, d) == [q \in { q \in DOMAIN f : ~IsPrefix(d, q) } |-> f[q]]

\* A variant of createFile that cleans up after a failed write by
\* removing the directory the file was to be in.
createFileCleanup(f, filePath, content, env) ==
    LET s == Slot(f, filePath)
    IN  IF ~s.ok \/ (s.path \in DOMAIN f /\ f[s.path].kind = "dir")
        THEN [ok |-> FALSE, fs |-> f, err |-> "Failed to create file", injected |-> FALSE]
        ELSE IF env = "createFails"
        THEN [ok |-> FALSE, fs |-> f, err |-> "Failed to create file", injected |-> TRUE]
        ELSE IF env = "writeFails"
        THEN [ok |-> FALSE, fs |-> RemoveAll(f, Parent(s.path)),
              err |-> "Failed to write to file", injected |-> TRUE]
        ELSE [ok |-> TRUE, fs |-> (s.path :> File(content)) @@ f,
              err |-> "", injected |-> FALSE]

\* createFile: os.Create (O_CREATE|O_TRUNC), then WriteString.  env is what
\* the environment does to the two calls.
createFile(f, filePath, content, env) ==
    LET s == Slot(f, filePath)
    IN  IF ~s.ok \/ (s.path \in DOMAIN f /\ f[s.path].kind = "dir")
        THEN [ok |-> FALSE, fs |-> f, err |-> "Failed to create file", injected |-> FALSE]
        ELSE IF env = "createFails"
        THEN [ok |-> FALSE, fs |-> f, err |-> "Failed to create file", injected |-> TRUE]
        ELSE IF env = "writeFails"
        THEN [ok |-> FALSE, fs |-> (s.path :> File(Truncated)) @@ f,
              err |-> "Failed to write to file", injected |-> TRUE]
        ELSE [ok |-> TRUE, fs |-> (s.path :> File(content)) @@ f,
              err |-> "", injected |-> FALSE]

\* initGit: git init with its working directory set to projectDir.
initGit(f, projectDir, env) ==
    LET d == Lookup(f, projectDir)
        isDir == d.ok /\ f[d.path].kind = "dir"
        meta == Append(d.path, ".git")
    IN  IF ~isDir THEN [ok |-> FALSE, fs |-> f, injected |-> FALSE]
        ELSE IF env = "fails" THEN [ok |-> FALSE, fs |-> f, injected |-> TRUE]
        ELSE IF env = "failsHalfway"
        THEN [ok |-> FALSE, fs |-> (meta :> Dir) @@ f, injected |-> TRUE]
        ELSE [ok |-> TRUE, fs |-> (meta :> Dir) @@ f, injected |-> FALSE]

\* What a step added to or changed in the filesystem.
Delta(f, g) == { <<p, g[p]>> : p \in { q \in DOMAIN g : q \notin DOMAIN f \/ f[q] /= g[q] } }

----------------------------------------------------------------------------
Init ==
    /\ fs = InitialTree
    /\ args = <<>>
    /\ pc = "idle"
    /\ idx = 0
    /\ projectName = NoName
    /\ exit = <<>>
    /\ stdout = <<>>
    /\ stderr = ""
    /\ gitInvoked = FALSE
    /\ fs0 = InitialTree
    /\ log = <<>>
    /\ made = {}
    /\ injected = FALSE
    /\ runs = 0

\* The shell starts the tool.
Invoke ==
    /\ pc \in {"idle", "exited"}
    /\ runs < MaxRuns
    /\ \E a \in Argvs : args' = a
    /\ pc' = "args"
    /\ idx' = 0
    /\ projectName' = NoName
    /\ exit' = <<>>
    /\ stdout' = <<>>
    /\ stderr' = ""
    /\ gitInvoked' = FALSE
    /\ fs0' = fs
    /\ log' = <<>>
    /\ made' = {}
    /\ injected' = FALSE
    /\ runs' = runs + 1
    /\ UNCHANGED fs

\* The process exits through log.Fatal.
Fatal(msg) ==
    /\ pc' = "exited"
    /\ exit' = <<logFatal(msg).status>>
    /\ stderr' = logFatal(msg).stderr
    /\ UNCHANGED <<args, idx, projectName, stdout, fs0, log, made, runs>>

\* Step (pc, idx) completed: control moves on.
Advance(step) ==
    /\ pc' = After(pc, idx, projectName)[1]
    /\ idx' = After(pc, idx, projectName)[2]
    /\ log' = Append(log, step)
    /\ made' = made \cup Delta(fs, fs')
    /\ UNCHANGED <<args, projectName, exit, stdout, stderr, fs0, runs>>

\* main, lines 12-15.
CheckArgs ==
    /\ pc = "args"
    /\ IF ArgsMissing(args)
       THEN /\ Fatal("Please provide a project name as an argument.")
            /\ UNCHANGED <<fs, gitInvoked, injected>>
       ELSE IF Len(args) < 2
       THEN \* os.Args[1] out of range: the runtime panics, status 2
            /\ pc' = "exited"
            /\ exit' = <<2>>
            /\ stderr' = "panic: runtime error: index out of range"
            /\ UNCHANGED <<fs, args, idx, projectName, stdout, gitInvoked,
                           fs0, log, made, injected, runs>>
       ELSE /\ projectName' = args[2]
            /\ pc' = "mkroot"
            /\ UNCHANGED <<fs, args, idx, exit, stdout, stderr, gitInvoked,
                           fs0, log, made, injected, runs>>

\* main, lines 18-21.
MkdirRoot ==
    /\ pc = "mkroot"
    /\ \E envOk \in BOOLEAN :
         LET r == Mkdir(fs, projectName)
         IN  IF r.ok /\ envOk
             THEN /\ fs' = r.fs
                  /\ Advance(<<"root", 0>>)
                  /\ UNCHANGED <<gitInvoked, injected>>
             ELSE /\ Fatal("Failed to create project directory")
                  /\ injected' = (injected \/ r.ok)
                  /\ UNCHANGED <<fs, gitInvoked>>

\* main, lines 42-48: one iteration of the loop over dirs.
MkdirAllDir ==
    /\ pc = "dirs"
    /\ LET dirPath == Join(<<projectName, dirs(projectName)[idx]>>)
       IN  \E failAt \in 0..Len(dirPath) :
             LET r == MkdirAll(fs, dirPath, failAt)
             IN  /\ fs' = r.fs
                 /\ IF r.ok
                    THEN /\ Advance(<<"dir", idx>>)
                         /\ UNCHANGED <<gitInvoked, injected>>
                    ELSE /\ Fatal("Failed to create directory")
                         /\ injected' = (injected \/ r.injected)
                         /\ UNCHANGED gitInvoked

\* main, lines 51-60: one createFile call.
CreateFile ==
    /\ pc = "files"
    /\ \E env \in {"ok", "createFails", "writeFails"} :
         LET e == files(projectName)[idx]
             r == createFile(fs, e.path, e.content, env)
         IN  /\ fs' = r.fs
             /\ IF r.ok
                THEN /\ Advance(<<"file", idx>>)
                     /\ UNCHANGED <<gitInvoked, injected>>
                ELSE /\ Fatal(r.err)
                     /\ injected' = (injected \/ r.injected)
                     /\ UNCHANGED gitInvoked

\* main, line 63.
InitGit ==
    /\ pc = "git"
    /\ gitInvoked' = TRUE
    /\ \E env \in {"ok", "fails", "failsHalfway"} :
         LET r == initGit(fs, projectName, env)
         IN  /\ fs' = r.fs
             /\ IF r.ok
                THEN /\ Advance(<<"git", 0>>)
                     /\ UNCHANGED injected
                ELSE /\ Fatal("Failed to initialize Git")
                     /\ injected' = (injected \/ r.injected)

\* main, line 65, and the return from main.
PrintSuccess ==
    /\ pc = "print"
    /\ stdout' = Append(stdout, [fmt |-> "Project %s has been created successfully!",
                                 arg |-> projectName])
    /\ pc' = After(pc, idx, projectName)[1]
    /\ idx' = After(pc, idx, projectName)[2]
    /\ exit' = <<0>>
    /\ log' = Append(log, <<"print", 0>>)
    /\ UNCHANGED <<fs, args, projectName, stderr, gitInvoked, fs0, made,
                   injected, runs>>

Next ==
    \/ Invoke
    \/ CheckArgs
    \/ MkdirRoot
    \/ MkdirAllDir
    \/ CreateFile
    \/ InitGit
    \/ PrintSuccess

Spec == Init /\ [][Next]_vars

----------------------------------------------------------------------------
\* Vocabulary of the properties, written from the manifest of the
\* specification (section 6), not from main's tables.

\* A name that is one path segment and not a special one.
ValidName(n) == Len(n) = 1 /\ n[1] \notin {"", ".", ".."}

ManifestDirs(n) ==
    { <<"cmd">> \o n,
      <<"internal", "handlers">>, <<"internal", "services">>,
      <<"internal", "repository">>, <<"internal", "models", "api">>,
      <<"internal", "models", "db">>, <<"internal", "middlewares">>,
      <<"internal", "utils">>, <<"pkg", "logger">>, <<"pkg", "config">>,
      <<"tests", "unit">>, <<"tests", "integration">>,
      <<"migrations">>, <<"docs">> }

ManifestFiles(n) ==
    { <<"cmd">> \o n \o <<"main.go">>, <<".env">>, <<".gitignore">>,
      <<"Makefile">>, <<"pkg", "logger", "logger.go">>,
      <<"pkg", "config", "config.go">> }

MetadataDir == <<".git">>

Prefixes(p) == { SubSeq(p, 1, k) : k \in 1..Len(p) }

\* Every path the manifest implies below the root, parents included.
ManifestTree(n) ==
    UNION { Prefixes(p) : p \in ManifestDirs(n) \cup ManifestFiles(n) \cup {MetadataDir} }

\* The paths below root in f, relative to root.
Below(f, root) ==
    { SubSeq(q, Len(root) + 1, Len(q)) :
        q \in { r \in DOMAIN f : Len(r) > Len(root) /\ IsPrefix(root, r) } }

IsDirIn(f, p) == p \in DOMAIN f /\ f[p].kind = "dir"

IsFileIn(f, p) == p \in DOMAIN f /\ f[p].kind = "file"

HasName == runs > 0 /\ Len(args) >= 2

Exited == pc = "exited"

Failed == Exited /\ exit /= <<0>>

SuccessLine(n) == [fmt |-> "Project %s has been created successfully!", arg |-> n]

\* The steps of a complete run, in the order the specification gives.
FullRun ==
    << <<"root", 0>> >> \o [i \in 1..14 |-> <<"dir", i>>]
    \o [j \in 1..6 |-> <<"file", j>>] \o << <<"git", 0>>, <<"print", 0>> >>

RootOf(f) == Lookup(f, projectName).path

----------------------------------------------------------------------------
\* C1: a run with a valid project name N that was not present when the run
\* started, and in which no filesystem or git call was made to fail, ends
\* with exit status 0 and leaves N/ holding exactly the manifest: the 14
\* subdirectories, the 6 files and the version-control metadata directory
\* (with the parents these paths imply), and nothing else.
C1_ScaffoldExact ==
    (Exited /\ HasName /\ ~injected) =>
        LET n == args[2]
            root == Cwd \o n
        IN  (ValidName(n) /\ ~Lookup(fs0, n).ok) =>
              /\ exit = <<0>>
              /\ stdout = << SuccessLine(n) >>
              /\ IsDirIn(fs, root)
              /\ Below(fs, root) = ManifestTree(n)
              /\ Cardinality(ManifestDirs(n)) = 14
              /\ Cardinality(ManifestFiles(n)) = 6
              /\ \A d \in ManifestDirs(n) \cup {MetadataDir} : IsDirIn(fs, root \o d)
              /\ \A d \in ManifestFiles(n) : IsFileIn(fs, root \o d)
              /\ \A q \in Below(fs, root) :
                   IsDirIn(fs, root \o q) \/ q \in ManifestFiles(n)

C1_Witness ==
    /\ Exited /\ HasName /\ ~injected
    /\ args[2] = <<"myapi">>
    /\ ~Lookup(fs0, args[2]).ok
    /\ IsDirIn(fs, <<"home", "myapi", ".git">>)

\* C2: when a directory named N exists when the run starts, the run exits
\* non-zero at root-directory creation: no step completes, git is not run
\* and the filesystem stays as it was.
C2_ExistingRootUntouched ==
    (HasName /\ Lookup(fs0, args[2]).ok /\ IsDirIn(fs0, Lookup(fs0, args[2]).path)) =>
        /\ pc \in {"args", "mkroot", "exited"}
        /\ fs = fs0
        /\ log = <<>>
        /\ made = {}
        /\ ~gitInvoked
        /\ Exited => /\ Len(exit) = 1 /\ exit[1] /= 0
                     /\ stderr = "Failed to create project directory"
                     /\ stdout = <<>>

\* A second invocation with the name of a project the first one completed.
C2_Witness ==
    /\ Exited /\ runs = 2 /\ HasName
    /\ args[2] = <<"myapi">>
    /\ IsDirIn(fs0, <<"home", "myapi", ".git">>)
    /\ IsFileIn(fs0, <<"home", "myapi", "Makefile">>)
    /\ exit = <<1>>

\* C3: invoked without a project name the process exits non-zero with the
\* diagnostic about the missing argument; nothing is created and git is not
\* invoked.
C3_NoArgument ==
    (runs > 0 /\ Len(args) = 1) =>
        /\ pc \in {"args", "exited"}
        /\ fs = fs0
        /\ log = <<>>
        /\ ~gitInvoked
        /\ Exited => /\ Len(exit) = 1 /\ exit[1] /= 0
                     /\ stderr = "Please provide a project name as an argument."
                     /\ stdout = <<>>

C3_Witness == Exited /\ runs > 0 /\ Len(args) = 1 /\ exit = <<1>>

\* C4: the completed steps of a run are always an initial part of: root,
\* the 14 subdirectories in order, the 6 files in order, git init, the
\* success message; and a step is only at hand when all before it are done.
C4_FixedOrder ==
    /\ Len(log) <= Len(FullRun)
    /\ log = SubSeq(FullRun, 1, Len(log))
    /\ pc = "mkroot" => log = <<>>
    /\ pc = "dirs" => Len(log) = idx
    /\ pc = "files" => Len(log) = 14 + idx
    /\ pc = "git" => Len(log) = 21
    /\ pc = "print" => Len(log) = 22
    /\ gitInvoked => Len(log) >= 21
    /\ stdout /= <<>> => log = FullRun

C4_Witness == Exited /\ log = FullRun

\* C5: a failing step ends the run at once with a non-zero status; after
\* the exit nothing happens but a new invocation; git is not run after a
\* filesystem failure; the success line is printed only by a run in which
\* every step succeeded.
C5_FirstFailureWins ==
    /\ [](stderr /= "" => (Exited /\ Len(exit) = 1 /\ exit[1] /= 0 /\ stdout = <<>>))
    /\ []((Exited /\ runs > 0) => (stderr = "" <=> exit = <<0>>))
    /\ []((Exited /\ stderr /= "" /\ stderr /= "Failed to initialize Git") => ~gitInvoked)
    /\ [](stdout /= <<>> =>
            (log = FullRun /\ stderr = "" /\ stdout = << SuccessLine(projectName) >>))
    /\ [][Exited => (pc' = "args" /\ fs' = fs /\ runs' = runs + 1)]_vars
    /\ [][(pc' = "exited" /\ pc /= "print") => (stderr' /= "" /\ log' = log)]_vars

C5_Witness ==
    /\ Exited /\ stderr = "Failed to create file"
    /\ log = SubSeq(FullRun, 1, 17)

\* C6: when a run fails after the root was created, whatever its completed
\* steps created is still on disk, as they left it.
C6_NoRollback ==
    (Failed /\ Len(log) >= 1) =>
        /\ made /= {}
        /\ \A m \in made : m[1] \in DOMAIN fs /\ fs[m[1]] = m[2]
        /\ \A p \in DOMAIN fs0 : p \in DOMAIN fs /\ fs[p] = fs0[p]

C6_Witness ==
    /\ Failed /\ stderr = "Failed to write to file"
    /\ Len(log) >= 16
    /\ \E m \in made : m[2].kind = "file"

\* C7: once the subdirectory step succeeded, <root>/cmd/<project-name> is a
\* directory of the tree, and the entry-point file, once written, is in it.
C7_CmdProjectDir ==
    (Len(log) >= 15) =>
        LET d == Lookup(fs, projectName \o <<"cmd">> \o projectName)
        IN  /\ d.ok
            /\ IsDirIn(fs, d.path)
            /\ Len(log) >= 16 =>
                 /\ IsFileIn(fs, Append(d.path, "main.go"))
                 /\ fs[Append(d.path, "main.go")].tmpl = "main.go"

\* The statement of C7 restricted to names of one plain segment, for which
\* it holds.
C7_PlainNames == (HasName /\ ValidName(args[2])) => C7_CmdProjectDir

\* C8: the entry-point file a run wrote holds exactly two import paths
\* built from the project name, N/pkg/config and N/pkg/logger, for the N of
\* the command line, which also names the root the file is under.
C8_ImportPaths ==
    \A p \in DOMAIN fs :
        (p \notin DOMAIN fs0 /\ fs[p].tmpl = "main.go") =>
            LET n == args[2]
                imports == { fs[p].paths[i] : i \in DOMAIN fs[p].paths }
            IN  /\ { q \in imports : IsPrefix(n, q) }
                     = { n \o <<"pkg", "config">>, n \o <<"pkg", "logger">> }
                /\ Cardinality({ i \in DOMAIN fs[p].paths : IsPrefix(n, fs[p].paths[i]) }) = 2
                /\ Lookup(fs, n).ok
                /\ <<Lookup(fs, n).path, Dir>> \in made
                /\ IsPrefix(Lookup(fs, n).path, p)

C8_Witness ==
    /\ HasName /\ args[2] = <<"..", "x">>
    /\ \E p \in DOMAIN fs : p \notin DOMAIN fs0 /\ fs[p].tmpl = "main.go"

\* C9: the run target of the Makefile a run wrote names cmd/N/main.go for
\* the N of the command line, and that path, taken from the project root,
\* is the entry-point file the same run wrote.
C9_MakefileRunTarget ==
    (Len(log) >= 19) =>
        LET mk == Append(RootOf(fs), "Makefile")
            target == fs[mk].paths[1]
            t == Walk(fs, RootOf(fs), target)
        IN  /\ IsFileIn(fs, mk)
            /\ target = <<"cmd">> \o args[2] \o <<"main.go">>
            /\ t.ok
            /\ IsFileIn(fs, t.path)
            /\ fs[t.path].tmpl = "main.go"
            /\ <<t.path, fs[t.path]>> \in made

\* The statement of C9 restricted to names of one plain segment, for which
\* it holds.
C9_PlainNames == (HasName /\ ValidName(args[2])) => C9_MakefileRunTarget

====
